---- MODULE Spec2Model ----
(***************************************************************************)
(* Model of run-tests.py: the test harness that scans the `results` tree   *)
(* for scripts and notebooks, runs each one in a subprocess and folds the  *)
(* outcomes into one boolean and a process exit code.                      *)
(*                                                                         *)
(* Strings are sequences of one-character strings, so that startswith,     *)
(* endswith, strip, os.path.join and os.path.splitext are computed the way *)
(* Python computes them.                                                   *)
(***************************************************************************)
EXTENDS Integers, Sequences, FiniteSets, TLC

\* ------------------------------------------------------------------ bounds
\* Subprocess exit statuses range over 0..MaxExit.
MaxExit == 1

\* Ignore-list entries are built from at most MaxParts fragments.
MaxParts == 2

\* --------------------------------------------------------- string helpers
StartsWith(s, p) == Len(s) >= Len(p) /\ SubSeq(s, 1, Len(p)) = p

EndsWith(s, p) == Len(s) >= Len(p) /\ SubSeq(s, Len(s) - Len(p) + 1, Len(s)) = p

SetMax(S) == CHOOSE x \in S : \A y \in S : y <= x

SetMin(S) == CHOOSE x \in S : \A y \in S : x <= y

\* Index of the last occurrence of character c in s, 0 when absent (str.rfind).
RFind(s, c) == LET I == {i \in 1..Len(s) : s[i] = c} IN IF I = {} THEN 0 ELSE SetMax(I)

Whitespace == {" ", "\n", "\t"}

\* str.strip(): drop leading and trailing whitespace.
Strip(s) ==
  LET I == {i \in 1..Len(s) : s[i] \notin Whitespace}
  IN IF I = {} THEN <<>> ELSE SubSeq(s, SetMin(I), SetMax(I))

\* os.path.splitext(p)[1]: the text from the last dot of the last path
\* component, unless only dots precede it in that component.
SplitExt(p) ==
  LET sep == RFind(p, "/")
      dot == RFind(p, ".")
  IN IF dot > sep /\ \E i \in (sep + 1)..(dot - 1) : p[i] # "."
     THEN SubSeq(p, dot, Len(p))
     ELSE <<>>

\* os.path.join(root, filename) for a root without trailing separator.
Join(root, filename) == root \o <<"/">> \o filename

\* ------------------------------------------------------- string constants
ResultsDir == <<"r", "e", "s", "u", "l", "t", "s">>

ResultsPrefix == <<"r", "e", "s", "u", "l", "t", "s", "/">>

ExtIpynb == <<".", "i", "p", "y", "n", "b">>

ExtPy == <<".", "p", "y">>

\* ------------------------------------------------------------ file system
\* A fixed tree below `results`.  Node 0 is the root directory.
\*   results/a.py            file
\*   results/b.ipynb         file
\*   results/n.txt           file
\*   results/.h.py/          hidden directory
\*   results/.h.py/c.py      file
\*   results/sub/            directory
\*   results/sub/d.ipynb     file
\*   results/sub/e.py        file
\*   results/sub/.k/         hidden directory
\*   results/sub/.k/g.py     file
\*   results/p.py/           directory whose name ends in .py (empty)
Root == 0

Nodes == 1..11

FileName(n) ==
  CASE n = 1 -> <<"a", ".", "p", "y">>
    [] n = 2 -> <<"b", ".", "i", "p", "y", "n", "b">>
    [] n = 3 -> <<"n", ".", "t", "x", "t">>
    [] n = 4 -> <<".", "h", ".", "p", "y">>
    [] n = 5 -> <<"c", ".", "p", "y">>
    [] n = 6 -> <<"s", "u", "b">>
    [] n = 7 -> <<"d", ".", "i", "p", "y", "n", "b">>
    [] n = 8 -> <<"e", ".", "p", "y">>
    [] n = 9 -> <<".", "k">>
    [] n = 10 -> <<"g", ".", "p", "y">>
    [] n = 11 -> <<"p", ".", "p", "y">>

Parent(n) ==
  CASE n \in {1, 2, 3, 4, 6, 11} -> Root
    [] n = 5 -> 4
    [] n \in {7, 8, 9} -> 6
    [] n = 10 -> 9

IsDirNode(n) == n \in {Root, 4, 6, 9, 11}

RECURSIVE PathOf(_)
PathOf(n) == IF n = Root THEN ResultsDir ELSE Join(PathOf(Parent(n)), FileName(n))

\* os.listdir(root): the entries of a directory, in no particular order.
ListDir(d) == {n \in Nodes : Parent(n) = d}

\* os.path.isdir(path) / os.path.isfile(path) on path strings.
IsDir(path) == \E n \in Nodes \cup {Root} : PathOf(n) = path /\ IsDirNode(n)

IsFile(path) == \E n \in Nodes : PathOf(n) = path /\ ~IsDirNode(n)

\* filename[:1] == "."
IsHidden(filename) == SubSeq(filename, 1, 1) = <<".">>

RECURSIVE Ancestors(_)
Ancestors(n) == IF n = Root THEN {} ELSE {Parent(n)} \cup Ancestors(Parent(n))

\* ------------------------------------------------------ ignore-list loader
\* A canonicalization that appends ".ipynb" without looking at the ending.
CanonAlwaysAppend(line) ==
  (IF ~StartsWith(line, ResultsPrefix) THEN ResultsPrefix \o line ELSE line) \o ExtIpynb

\* Lines 51-54: prepend "results/" and append ".ipynb" when missing.
Canon(line) ==
  LET l1 == IF ~StartsWith(line, ResultsPrefix) THEN ResultsPrefix \o line ELSE line
  IN IF ~EndsWith(l1, ExtIpynb) THEN l1 \o ExtIpynb ELSE l1

\* A loader that drops entries naming no file instead of raising.
RECURSIVE LoadLinesLenient(_, _)
LoadLinesLenient(lines, acc) ==
  IF lines = <<>> THEN [raised |-> FALSE, ignore_list |-> acc]
  ELSE LET line == Strip(Head(lines))
       IN IF line = <<>> \/ SubSeq(line, 1, 1) = <<"#">> \/ ~IsFile(Canon(line))
          THEN LoadLinesLenient(Tail(lines), acc)
          ELSE LoadLinesLenient(Tail(lines), Append(acc, Canon(line)))

\* Lines 47-57: the loop over f.readlines().  The result says whether the
\* loop raised and which entries had been appended by then.
RECURSIVE LoadLines(_, _)
LoadLines(lines, acc) ==
  IF lines = <<>> THEN [raised |-> FALSE, ignore_list |-> acc]
  ELSE LET line == Strip(Head(lines))
       IN IF line = <<>> \/ SubSeq(line, 1, 1) = <<"#">>
          THEN LoadLines(Tail(lines), acc)
          ELSE IF ~IsFile(Canon(line))
               THEN [raised |-> TRUE, ignore_list |-> acc]
               ELSE LoadLines(Tail(lines), Append(acc, Canon(line)))

\* Lines 44-57: ignore_list = [] unless skip_slow_books and .slow-books exists.
LoadIgnoreList(skip, file) ==
  IF skip /\ file.exists
  THEN LoadLines(file.lines, <<>>)
  ELSE [raised |-> FALSE, ignore_list |-> <<>>]

\* Contents of .slow-books the model considers.
NoSlowBooks == [exists |-> FALSE, lines |-> <<>>]

SlowBooksB ==
  [exists |-> TRUE,
   lines |-> << <<"#", " ", "c", "\n">>, <<"\n">>, <<" ", "b", "\n">> >>]

SlowBooksDeep ==
  [exists |-> TRUE,
   lines |-> << ResultsPrefix \o <<"s", "u", "b", "/", "d", "\n">>,
                <<"b", ".", "i", "p", "y", "n", "b", "\n">> >>]

SlowBooksStale ==
  [exists |-> TRUE,
   lines |-> << <<"b", "\n">>, <<"n", "o", "p", "e", "\n">> >>]

SlowBooksFiles == {NoSlowBooks, SlowBooksB, SlowBooksDeep, SlowBooksStale}

\* Ignore lists handed directly to scan_for_nb_and_scripts.
IgnoreLists == { <<>>, <<PathOf(2), PathOf(7)>> }

InList(x, list) == \E i \in 1..Len(list) : list[i] = x

\* Pieces ignore-list entries are made of: the prefix and the extension the
\* loader looks for, truncated forms of both, and plain name parts.
Fragments ==
  { ResultsPrefix, ResultsDir, ExtIpynb, <<".", "i", "p", "y", "n">>,
    <<"b">>, <<"/">>, <<"s", "u", "b", "/", "d">> }

\* The strings made of at most k fragments.
RECURSIVE Concats(_)
Concats(k) ==
  IF k = 0 THEN {<<>>}
  ELSE LET S == Concats(k - 1) IN S \cup {s \o f : s \in S, f \in Fragments}

Entries == Concats(MaxParts)

\* ------------------------------------------------------------------ state
VARIABLES
  entry,            \* which function the run starts in: "main", "run_nb", "scan"
  args,             \* parsed command line: flake8, results, debook, quick
  skip_slow_books,  \* parameter of run_notebook_and_scripts
  slow_books,       \* the .slow-books file
  recursive,        \* parameter of the top-level scan_for_nb_and_scripts
  ignore_list,      \* ignore list of the top-level scan
  pc,               \* position of the harness
  ret,              \* where run_flake8 / run_notebook_and_scripts return to
  has_run,          \* line 253
  stack,            \* activation records of scan_for_nb_and_scripts
  inflight,         \* subprocesses that are alive
  signalled,        \* subprocesses that were sent a terminate request
  outcome,          \* per target of the current scan: none/Skipped/Passed/Failed
  printed,          \* per target of the current scan: what was printed for it
  runs,             \* per target of the current scan: subprocesses spawned
  recursed,         \* directories the current scan was called on
  last,             \* target and returncode of the subprocess last waited for
  result,           \* return value of the top-level scan, once it returned
  summary,          \* closing line printed by run_notebook_and_scripts
  cancelled,        \* subprocess a KeyboardInterrupt was caught on
  conv_failed,      \* notebook whose conversion raised
  exit_code,        \* exit status of the harness process, once pc = "exit"
  flake8,           \* flake8 subprocesses spawned, and the status wait() returned
  os_environ,       \* os.environ of the harness
  env,              \* the env handed to the target subprocess last spawned
  canon             \* an ignore-list entry and its successive canonical forms

vars == <<entry, args, skip_slow_books, slow_books, recursive, ignore_list, pc,
          ret, has_run, stack, inflight, signalled, outcome, printed, runs,
          recursed, last, result, summary, cancelled, conv_failed, exit_code,
          flake8, os_environ, env, canon>>

\* What no action of the harness changes.
config == <<entry, args, skip_slow_books, slow_books, canon>>

proc_env == <<os_environ, env>>

NoNode == -1

Flake8Proc == 99

NoExit == -1

NoResult == [returned |-> FALSE, value |-> FALSE]

\* Exit status of the interpreter after an uncaught exception.
UncaughtExit == 1

ExitCodes == 0..MaxExit

NoArgs == [flake8 |-> FALSE, results |-> FALSE, debook |-> FALSE, quick |-> FALSE]

ArgSets == [flake8 : BOOLEAN, results : BOOLEAN, debook : BOOLEAN, quick : BOOLEAN]

Fresh == [n \in Nodes |-> "none"]

NoFlake8 == [runs |-> 0, status |-> NoExit]

\* What a subprocess wrote to a pipe: nothing, text, or bytes that are not
\* valid UTF-8.
Streams == {"empty", "text", "binary"}

\* The captured (stdout, stderr) pairs the model considers.
Outputs ==
  { [stdout |-> "empty", stderr |-> "empty"],
    [stdout |-> "text", stderr |-> "text"],
    [stdout |-> "text", stderr |-> "binary"],
    [stdout |-> "binary", stderr |-> "text"] }

NoLast == [node |-> NoNode, returncode |-> NoExit,
           output |-> [stdout |-> "empty", stderr |-> "empty"]]

\* Environments: dictionaries from some of the variable names to values.
EnvNames == {"MPLBACKEND", "PATH", "HOME"}

EnvValues == {"Template", "TkAgg", "/bin"}

Environs == UNION {[S -> EnvValues] : S \in SUBSET EnvNames}

DefaultEnviron == [k \in {"MPLBACKEND", "PATH"} |-> IF k = "PATH" THEN "/bin" ELSE "TkAgg"]

NoEnv == [k \in {} |-> "Template"]

\* Line 67, 71: a new activation of scan_for_nb_and_scripts.
NewFrame(d, rec, ign) ==
  [dir |-> d, todo |-> ListDir(d), cur |-> NoNode, phase |-> "loop",
   ok |-> TRUE, recursive |-> rec, ignore_list |-> ign]

Init ==
  /\ entry \in {"main", "run_nb", "scan"}
  /\ args \in ArgSets
  /\ skip_slow_books \in BOOLEAN
  /\ slow_books \in SlowBooksFiles
  /\ recursive \in BOOLEAN
  /\ ignore_list \in IgnoreLists
  \* main takes the command line; it calls run_notebook_and_scripts() with
  \* its defaults (lines 261, 269), which scans recursively (line 61).
  /\ entry = "main" => ~skip_slow_books /\ slow_books # SlowBooksDeep
  \* -debook is combined with every flag, the .slow-books files with the
  \* flags that run tests.
  /\ (entry = "main" /\ args.debook) => slow_books = NoSlowBooks
  /\ entry # "main" => args = NoArgs
  /\ entry # "scan" => recursive /\ ignore_list = <<>>
  /\ entry = "scan" => ~skip_slow_books /\ slow_books = NoSlowBooks
  /\ pc = CASE entry = "main" -> "main_tests"
            [] entry = "run_nb" -> "load"
            [] entry = "scan" -> "scan_call"
  /\ ret = "returned"
  /\ has_run = FALSE
  /\ stack = <<>>
  /\ inflight = {}
  /\ signalled = {}
  /\ outcome = Fresh
  /\ printed = [n \in Nodes |-> <<>>]
  /\ runs = [n \in Nodes |-> 0]
  /\ recursed = {}
  /\ last = NoLast
  /\ result = NoResult
  /\ summary = "none"
  /\ cancelled = NoNode
  /\ conv_failed = NoNode
  /\ exit_code = NoExit
  /\ flake8 = NoFlake8
  /\ os_environ = DefaultEnviron
  /\ env = NoEnv
  /\ canon = <<>>

\* -------------------------------------------------------- pure operations
\* A fold that keeps only the latest result (ok = <result>).
CombineLast(ok, r) == r

\* Lines 86, 93, 99: ok &= <result>.
Combine(ok, r) == ok /\ r

\* Line 86: the recursive call passes root, recursive and executable only,
\* so the callee's ignore_list is the (never mutated) default [].
SubIgnoreList(ign) == <<>>

\* A classification that descends into directories whatever the flag says.
ClassifyAlwaysRecursive(path, filename, rec, ign) ==
  IF InList(path, ign) THEN "skip"
  ELSE IF IsDir(path)
       THEN IF IsHidden(filename) THEN "hidden" ELSE "recurse"
       ELSE "test"

\* Lines 77-85: what the loop does with an entry before the extension test.
Classify(path, filename, rec, ign) ==
  IF InList(path, ign) THEN "skip"
  ELSE IF rec /\ IsDir(path)
       THEN IF IsHidden(filename) THEN "hidden" ELSE "recurse"
       ELSE "test"

\* Lines 89, 95: the extension test.
TargetKind(path) ==
  IF SplitExt(path) = ExtIpynb THEN "notebook"
  ELSE IF SplitExt(path) = ExtPy THEN "script"
  ELSE "other"

\* An environment built without the copy: env = os.environ, so the assignment
\* on line 124 also changes the harness's own environment.
TargetEnvAliased(environ) ==
  LET e == [k \in DOMAIN environ \cup {"MPLBACKEND"} |->
              IF k = "MPLBACKEND" THEN "Template" ELSE environ[k]]
  IN [env |-> e, os_environ |-> e]

\* Lines 124-125, 131 / 169-170, 176: env = dict(os.environ) is a copy, in
\* which MPLBACKEND is set to "Template"; os.environ itself is not touched.
TargetEnv(environ) ==
  [env |-> [k \in DOMAIN environ \cup {"MPLBACKEND"} |->
              IF k = "MPLBACKEND" THEN "Template" ELSE environ[k]],
   os_environ |-> environ]

\* Lines 143, 145: str(b, "utf-8") succeeds unless b is not valid UTF-8.
Decodes(b) == b # "binary"

\* A check of flake8's status that lets every status through.
Flake8PassedAlways(r) == TRUE

\* Line 32: if ret == 0.
Flake8Passed(r) == r = 0

\* sys.exit() without the status: the interpreter exits with 0.
Flake8ExitDefault(r) == 0

\* Line 36: sys.exit(ret).
Flake8Exit(r) == r

\* A test that takes every non-negative returncode for success.
SuccessUnlessKilled(returncode) == returncode >= 0

\* Lines 135, 180: a target succeeds iff p.returncode is 0.
Success(returncode) == returncode = 0

\* Lines 137-146, 154 / 182-187, 195: what is printed once communicate returned.
Report(kind, returncode) ==
  IF returncode = 0 THEN <<"ok">>
  ELSE IF kind = "notebook"
       THEN <<"ERROR", "script", "stdout", "stderr">>
       ELSE <<"ERROR", "stdout", "stderr">>

\* Lines 137-145 / 182-186: what has been printed when decoding raises; the
\* stdout text is out only if it was stderr that could not be decoded.
PartialReport(kind, out) ==
  <<"ERROR">> \o (IF kind = "notebook" THEN <<"script">> ELSE <<>>)
              \o (IF Decodes(out.stdout) THEN <<"stdout">> ELSE <<>>)

\* A wait that returns while the child is still alive.
ReapNoWait(procs, p) == procs

\* Lines 133, 178 and 23: communicate() / wait() return once the child has
\* exited, so the child is no longer alive afterwards.
Reap(procs, p) == procs \ {p}

\* An interrupt handler that leaves the child alone.
TerminateNothing(sig, p) == sig

\* Lines 26, 149, 190: p.terminate() sends the child a terminate request.
Terminate(sig, p) == sig \cup {p}

\* ---------------------------------------------------------------- actions
Top == stack[Len(stack)]

SetTop(f) == [stack EXCEPT ![Len(stack)] = f]

\* sys.exit(code), or the interpreter ending after an uncaught exception.
Exit(code) == pc' = "exit" /\ exit_code' = code

scan_state == <<stack, outcome, printed, runs, recursed, last, result, summary, conv_failed>>

\* Lines 19-21: run_flake8 prints its banner and spawns flake8.
CallFlake8(return_to) ==
  /\ pc' = "flake8_wait"
  /\ ret' = return_to
  /\ inflight' = inflight \cup {Flake8Proc}
  /\ flake8' = [runs |-> flake8.runs + 1, status |-> NoExit]

\* Lines 253-261: if args.flake8 ... elif args.results ...
MainTests ==
  /\ pc = "main_tests"
  /\ IF args.flake8
     THEN has_run' = TRUE /\ CallFlake8("main_debook")
     ELSE IF args.results
          THEN has_run' = TRUE /\ pc' = "load" /\ ret' = "main_debook"
               /\ UNCHANGED <<inflight, flake8>>
          ELSE pc' = "main_debook" /\ UNCHANGED <<has_run, ret, inflight, flake8>>
  /\ UNCHANGED <<config, proc_env, recursive, ignore_list, signalled, scan_state, cancelled, exit_code>>

\* Lines 262-264 and 199-222: -debook exports one notebook; the conversion
\* may raise, which nothing catches.
MainDebook ==
  /\ pc = "main_debook"
  /\ IF args.debook
     THEN /\ has_run' = TRUE
          /\ \E converts \in BOOLEAN :
               IF converts THEN pc' = "main_quick" /\ UNCHANGED exit_code
               ELSE Exit(UncaughtExit)
     ELSE pc' = "main_quick" /\ UNCHANGED <<has_run, exit_code>>
  /\ UNCHANGED <<config, flake8, proc_env, recursive, ignore_list, ret, inflight, signalled, scan_state, cancelled>>

\* Lines 266-268: --quick runs flake8 first.
MainQuick ==
  /\ pc = "main_quick"
  /\ IF args.quick
     THEN has_run' = TRUE /\ CallFlake8("main_quick_nb")
     ELSE pc' = "main_help" /\ UNCHANGED <<has_run, ret, inflight, flake8>>
  /\ UNCHANGED <<config, proc_env, recursive, ignore_list, signalled, scan_state, cancelled, exit_code>>

\* Line 269: --quick then runs the notebooks and scripts.
MainQuickNb ==
  /\ pc = "main_quick_nb"
  /\ pc' = "load"
  /\ ret' = "main_help"
  /\ UNCHANGED <<config, flake8, proc_env, recursive, ignore_list, has_run, inflight, signalled, scan_state,
                 cancelled, exit_code>>

\* Lines 271-272: the script ends; the interpreter exits with status 0.
MainHelp ==
  /\ pc = "main_help"
  /\ Exit(0)
  /\ UNCHANGED <<config, flake8, proc_env, recursive, ignore_list, ret, has_run, inflight, signalled,
                 scan_state, cancelled>>

\* Lines 23, 32-36: flake8 ends by itself with status r.
Flake8Finish(r) ==
  /\ pc = "flake8_wait"
  /\ Flake8Proc \in inflight
  /\ inflight' = Reap(inflight, Flake8Proc)
  /\ flake8' = [flake8 EXCEPT !.status = r]
  /\ IF Flake8Passed(r) THEN pc' = ret /\ UNCHANGED exit_code ELSE Exit(Flake8Exit(r))
  /\ UNCHANGED <<config, proc_env, recursive, ignore_list, ret, has_run, signalled, scan_state, cancelled>>

\* Lines 24-28: KeyboardInterrupt while waiting for flake8.
Flake8Interrupt ==
  /\ pc = "flake8_wait"
  /\ signalled' = Terminate(signalled, Flake8Proc)
  /\ cancelled' = Flake8Proc
  /\ pc' = "flake8_reap"
  /\ UNCHANGED <<config, flake8, proc_env, recursive, ignore_list, ret, has_run, inflight, scan_state, exit_code>>

\* Lines 29-31: p.wait() returns once the child is gone, then sys.exit(1).
Flake8Reaped ==
  /\ pc = "flake8_reap"
  /\ Flake8Proc \notin inflight
  /\ Exit(1)
  /\ UNCHANGED <<config, flake8, proc_env, recursive, ignore_list, ret, has_run, inflight, signalled,
                 scan_state, cancelled>>

\* A child that was sent a terminate request ends.
ChildDies(p) ==
  /\ p \in inflight \cap signalled
  /\ inflight' = inflight \ {p}
  /\ UNCHANGED <<config, flake8, proc_env, recursive, ignore_list, pc, ret, has_run, signalled, scan_state,
                 cancelled, exit_code>>

\* Line 67 entered from the top: bookkeeping of the previous scan is dropped.
BeginScan(rec, ign) ==
  /\ stack' = <<NewFrame(Root, rec, ign)>>
  /\ pc' = "scan"
  /\ outcome' = Fresh
  /\ printed' = [n \in Nodes |-> <<>>]
  /\ runs' = [n \in Nodes |-> 0]
  /\ recursed' = {Root}
  /\ last' = NoLast
  /\ result' = NoResult
  /\ summary' = "none"

\* Lines 44-61: load the ignore list, then start the scan of "results".
Load ==
  /\ pc = "load"
  /\ LET r == LoadIgnoreList(skip_slow_books, slow_books)
     IN IF r.raised
        THEN /\ Exit(UncaughtExit)
             /\ UNCHANGED <<recursive, ignore_list, scan_state>>
        ELSE /\ ignore_list' = r.ignore_list
             /\ recursive' = TRUE
             /\ BeginScan(TRUE, r.ignore_list)
             /\ UNCHANGED <<conv_failed, exit_code>>
  /\ UNCHANGED <<config, flake8, proc_env, ret, has_run, inflight, signalled, cancelled>>

\* scan_for_nb_and_scripts called directly with its own arguments.
ScanCall ==
  /\ pc = "scan_call"
  /\ BeginScan(recursive, ignore_list)
  /\ UNCHANGED <<config, flake8, proc_env, recursive, ignore_list, ret, has_run, inflight, signalled,
                 cancelled, conv_failed, exit_code>>

\* Lines 75-86: the loop takes the next entry of the listing.
Visit(n) ==
  /\ pc = "scan"
  /\ Top.phase = "loop"
  /\ n \in Top.todo
  /\ LET f == Top
         path == Join(PathOf(f.dir), FileName(n))
         c == Classify(path, FileName(n), f.recursive, f.ignore_list)
         rest == [f EXCEPT !.todo = f.todo \ {n}]
     IN CASE c = "skip" ->
               /\ stack' = SetTop(rest)
               /\ printed' = [printed EXCEPT ![n] = <<"Skipping">>]
               /\ outcome' = [outcome EXCEPT ![n] = "Skipped"]
               /\ UNCHANGED recursed
          [] c = "hidden" ->
               /\ stack' = SetTop(rest)
               /\ UNCHANGED <<printed, outcome, recursed>>
          [] c = "recurse" ->
               /\ stack' = Append(SetTop([rest EXCEPT !.cur = n, !.phase = "sub"]),
                                  NewFrame(n, f.recursive, SubIgnoreList(f.ignore_list)))
               /\ recursed' = recursed \cup {n}
               /\ UNCHANGED <<printed, outcome>>
          [] c = "test" ->
               /\ stack' = SetTop([rest EXCEPT !.cur = n, !.phase = "ext"])
               /\ UNCHANGED <<printed, outcome, recursed>>
  /\ last' = NoLast
  /\ UNCHANGED <<config, flake8, proc_env, recursive, ignore_list, pc, ret, has_run, inflight, signalled,
                 runs, result, summary, cancelled, conv_failed, exit_code>>

\* Lines 86, 102: a nested scan returns and its result is folded into ok;
\* the caller goes on to the extension test of the same entry.
ReturnSub ==
  /\ pc = "scan"
  /\ Len(stack) > 1
  /\ Top.phase = "loop"
  /\ Top.todo = {}
  /\ LET caller == stack[Len(stack) - 1]
     IN stack' = [SubSeq(stack, 1, Len(stack) - 1) EXCEPT ![Len(stack) - 1] =
                    [caller EXCEPT !.ok = Combine(caller.ok, Top.ok), !.phase = "ext"]]
  /\ UNCHANGED <<config, flake8, proc_env, recursive, ignore_list, pc, ret, has_run, inflight, signalled,
                 outcome, printed, runs, recursed, last, result, summary, cancelled,
                 conv_failed, exit_code>>

\* Lines 102 and 61-64: the top-level scan returns.
ReturnTop ==
  /\ pc = "scan"
  /\ Len(stack) = 1
  /\ Top.phase = "loop"
  /\ Top.todo = {}
  /\ stack' = <<>>
  /\ result' = [returned |-> TRUE, value |-> Top.ok]
  /\ IF entry = "scan"
     THEN pc' = "returned" /\ UNCHANGED <<summary, exit_code>>
     ELSE IF ~Top.ok
          THEN summary' = "Errors" /\ Exit(1)
          ELSE summary' = "OK" /\ pc' = ret /\ UNCHANGED exit_code
  /\ UNCHANGED <<config, flake8, proc_env, recursive, ignore_list, ret, has_run, inflight, signalled,
                 outcome, printed, runs, recursed, last, cancelled, conv_failed>>

\* Lines 89-99: an entry that is neither notebook nor script.
SkipOther ==
  /\ pc = "scan"
  /\ Top.phase = "ext"
  /\ TargetKind(PathOf(Top.cur)) = "other"
  /\ stack' = SetTop([Top EXCEPT !.cur = NoNode, !.phase = "loop"])
  /\ UNCHANGED <<config, flake8, proc_env, recursive, ignore_list, pc, ret, has_run, inflight, signalled,
                 outcome, printed, runs, recursed, last, result, summary, cancelled,
                 conv_failed, exit_code>>

\* Lines 113, 124-132 / 165, 169-177: the progress line is printed, the
\* environment is built and the subprocess is spawned with it; the harness
\* then blocks in communicate().
Spawn(n) ==
  /\ os_environ' = TargetEnv(os_environ).os_environ
  /\ env' = TargetEnv(os_environ).env
  /\ printed' = [printed EXCEPT ![n] = <<"Test">>]
  /\ inflight' = inflight \cup {n}
  /\ runs' = [runs EXCEPT ![n] = @ + 1]
  /\ stack' = SetTop([Top EXCEPT !.phase = "wait"])

\* Lines 93, 105-132: test_notebook up to the wait, conversion succeeding.
StartNotebook ==
  /\ pc = "scan"
  /\ Top.phase = "ext"
  /\ TargetKind(PathOf(Top.cur)) = "notebook"
  /\ ~IsDirNode(Top.cur)
  /\ Spawn(Top.cur)
  /\ UNCHANGED <<config, flake8, recursive, ignore_list, pc, ret, has_run, signalled, outcome,
                 recursed, last, result, summary, cancelled, conv_failed, exit_code>>

\* Lines 117-118: e.from_filename(path) raises; the call is outside the try
\* block and no caller catches, so the interpreter ends.
ConvertFails ==
  /\ pc = "scan"
  /\ Top.phase = "ext"
  /\ TargetKind(PathOf(Top.cur)) = "notebook"
  /\ printed' = [printed EXCEPT ![Top.cur] = <<"Test">>]
  /\ conv_failed' = Top.cur
  /\ Exit(UncaughtExit)
  /\ UNCHANGED <<config, flake8, proc_env, recursive, ignore_list, ret, has_run, stack, inflight, signalled,
                 outcome, runs, recursed, last, result, summary, cancelled>>

\* Lines 99, 158-177: test_script up to the wait.
StartScript ==
  /\ pc = "scan"
  /\ Top.phase = "ext"
  /\ TargetKind(PathOf(Top.cur)) = "script"
  /\ Spawn(Top.cur)
  /\ UNCHANGED <<config, flake8, recursive, ignore_list, pc, ret, has_run, signalled, outcome,
                 recursed, last, result, summary, cancelled, conv_failed, exit_code>>

\* Lines 133-147, 154-155 / 178-188, 195-196 and 93, 99: the child ends
\* with status rc, the result is reported, returned and folded into ok.
Finish(rc, out) ==
  /\ pc = "scan"
  /\ Top.phase = "wait"
  /\ rc = 0 \/ (Decodes(out.stdout) /\ Decodes(out.stderr))
  /\ LET n == Top.cur
     IN /\ n \in inflight
        /\ inflight' = Reap(inflight, n)
        /\ last' = [node |-> n, returncode |-> rc, output |-> out]
        /\ printed' = [printed EXCEPT ![n] = @ \o Report(TargetKind(PathOf(n)), rc)]
        /\ outcome' = [outcome EXCEPT ![n] = IF Success(rc) THEN "Passed" ELSE "Failed"]
        /\ stack' = SetTop([Top EXCEPT !.ok = Combine(Top.ok, Success(rc)),
                                       !.cur = NoNode, !.phase = "loop"])
  /\ UNCHANGED <<config, flake8, proc_env, recursive, ignore_list, pc, ret, has_run, signalled, runs,
                 recursed, result, summary, cancelled, conv_failed, exit_code>>

\* Lines 135-145 / 180-186: the child ends with a non-zero status and output
\* that is not UTF-8: str(stdout, "utf-8") or str(stderr, "utf-8") raises in
\* the middle of the report, nothing catches it and the interpreter ends.
ReportFails(rc, out) ==
  /\ pc = "scan"
  /\ Top.phase = "wait"
  /\ rc # 0
  /\ ~(Decodes(out.stdout) /\ Decodes(out.stderr))
  /\ LET n == Top.cur
     IN /\ n \in inflight
        /\ inflight' = Reap(inflight, n)
        /\ last' = [node |-> n, returncode |-> rc, output |-> out]
        /\ printed' = [printed EXCEPT ![n] = @ \o PartialReport(TargetKind(PathOf(n)), out)]
  /\ Exit(UncaughtExit)
  /\ UNCHANGED <<config, flake8, proc_env, recursive, ignore_list, ret, has_run, stack,
                 signalled, outcome, runs, recursed, result, summary, cancelled,
                 conv_failed>>

\* Lines 148-151 / 189-192: KeyboardInterrupt while blocked in communicate().
Interrupt ==
  /\ pc = "scan"
  /\ Top.phase = "wait"
  /\ signalled' = Terminate(signalled, Top.cur)
  /\ printed' = [printed EXCEPT ![Top.cur] = @ \o <<"ABORTED">>]
  /\ cancelled' = Top.cur
  /\ Exit(1)
  /\ UNCHANGED <<config, flake8, proc_env, recursive, ignore_list, ret, has_run, stack, inflight, outcome,
                 runs, recursed, last, result, summary, conv_failed>>

Next ==
  \/ MainTests
  \/ MainDebook
  \/ MainQuick
  \/ MainQuickNb
  \/ MainHelp
  \/ \E r \in ExitCodes : Flake8Finish(r)
  \/ Flake8Interrupt
  \/ Flake8Reaped
  \/ \E p \in Nodes \cup {Flake8Proc} : ChildDies(p)
  \/ Load
  \/ ScanCall
  \/ \E n \in Nodes : Visit(n)
  \/ ReturnSub
  \/ ReturnTop
  \/ SkipOther
  \/ StartNotebook
  \/ ConvertFails
  \/ StartScript
  \/ \E rc \in ExitCodes, out \in Outputs : Finish(rc, out)
  \/ \E rc \in ExitCodes, out \in Outputs : ReportFails(rc, out)
  \/ Interrupt

Spec == Init /\ [][Next]_vars

\* ------------------------------------------------- canonicalization alone
\* The harness variables while only a pure function is exercised.
Parked(where) ==
  /\ entry = where
  /\ args = NoArgs
  /\ skip_slow_books = FALSE
  /\ slow_books = NoSlowBooks
  /\ recursive = FALSE
  /\ ignore_list = <<>>
  /\ ret = "returned"
  /\ has_run = FALSE
  /\ stack = <<>>
  /\ inflight = {}
  /\ signalled = {}
  /\ outcome = Fresh
  /\ printed = [n \in Nodes |-> <<>>]
  /\ runs = [n \in Nodes |-> 0]
  /\ recursed = {}
  /\ last = NoLast
  /\ result = NoResult
  /\ summary = "none"
  /\ cancelled = NoNode
  /\ conv_failed = NoNode
  /\ exit_code = NoExit
  /\ flake8 = NoFlake8

InitCanon ==
  /\ Parked("canon")
  /\ pc = "canon"
  /\ os_environ = DefaultEnviron
  /\ env = NoEnv
  /\ canon \in {<<x>> : x \in Entries}

\* Lines 51-54 applied to the latest form of the entry.
Canonicalize ==
  /\ pc = "canon"
  /\ Len(canon) < 3
  /\ canon' = Append(canon, Canon(canon[Len(canon)]))
  /\ UNCHANGED <<entry, args, skip_slow_books, slow_books, recursive, ignore_list, pc,
                 ret, has_run, stack, inflight, signalled, outcome, printed, runs,
                 recursed, last, result, summary, cancelled, conv_failed, exit_code,
                 flake8, os_environ, env>>

NextCanon == Canonicalize

SpecCanon == InitCanon /\ [][NextCanon]_vars

\* ------------------------------------------- environments of the targets
\* A non-recursive scan of the results tree, started in any environment.
InitEnv ==
  /\ Parked("scan")
  /\ pc = "scan_call"
  /\ os_environ \in Environs
  /\ env = NoEnv
  /\ canon = <<>>

NextEnv ==
  \/ ScanCall
  \/ \E n \in Nodes : Visit(n)
  \/ ReturnTop
  \/ SkipOther
  \/ StartNotebook
  \/ ConvertFails
  \/ StartScript
  \/ \E rc \in ExitCodes, out \in Outputs : Finish(rc, out)
  \/ \E rc \in ExitCodes, out \in Outputs : ReportFails(rc, out)
  \/ Interrupt
  \/ \E p \in Nodes : ChildDies(p)

SpecEnv == InitEnv /\ [][NextEnv]_vars

TypeOK ==
  /\ pc \in {"main_tests", "main_debook", "main_quick", "main_quick_nb", "main_help",
             "flake8_wait", "flake8_reap", "load", "scan_call", "scan", "returned", "exit",
             "canon"}
  /\ inflight \subseteq Nodes \cup {Flake8Proc}
  /\ signalled \subseteq Nodes \cup {Flake8Proc}
  /\ \A n \in Nodes : outcome[n] \in {"none", "Skipped", "Passed", "Failed"}
  /\ exit_code \in {NoExit} \cup ExitCodes \cup {1}
  /\ last.returncode \in {NoExit} \cup ExitCodes
  /\ last.output \in Outputs
  /\ flake8.runs \in 0..2
  /\ os_environ \in Environs
  /\ env \in Environs
  /\ (pc = "exit") = (exit_code # NoExit)

\* ----------------------------------------------------------------- claims
Executed(n) == outcome[n] \in {"Passed", "Failed"}

HiddenDir(n) == IsDirNode(n) /\ IsHidden(FileName(n))

UnderHidden(n) == \E h \in Ancestors(n) \cap Nodes : HiddenDir(h)

Ignored(n) == InList(PathOf(n), ignore_list)

\* A scan of the results tree has been started in this run.
ScanStarted == recursed # {}

Ended == pc \in {"exit", "returned"}

\* The file has an entry whose canonical form names no existing file.
HasStaleEntry(file) ==
  /\ file.exists
  /\ \E i \in 1..Len(file.lines) :
       LET line == Strip(file.lines[i])
       IN line # <<>> /\ SubSeq(line, 1, 1) # <<"#">> /\ ~IsFile(Canon(line))

\* C1: once the top-level scan has returned, its result is true iff no
\* target executed in that scan failed.
C1_AggregateIsConjunction ==
  result.returned => (result.value <=> \A n \in Nodes : Executed(n) => outcome[n] = "Passed")

\* C1 witness: the scan returned false because of a single failure inside
\* a subdirectory, everything else having passed.
C1_Witness ==
  /\ result.returned
  /\ ~result.value
  /\ outcome[8] = "Failed"
  /\ \A n \in Nodes \ {8} : outcome[n] # "Failed"
  /\ outcome[1] = "Passed"

\* C2: a path of the ignore list is never run, neither at the top level nor
\* in a subdirectory: it has no subprocess and no Passed/Failed outcome.
C2_IgnoredNeverRun ==
  \A n \in Nodes : Ignored(n) => runs[n] = 0 /\ ~Executed(n) /\ n \notin inflight

\* C3: nothing under a hidden directory is converted or executed, and a
\* hidden directory is neither recursed into nor reported.
C3_HiddenNeverVisited ==
  /\ \A n \in Nodes : UnderHidden(n) => runs[n] = 0 /\ printed[n] = <<>>
  /\ \A h \in Nodes : HiddenDir(h) => h \notin recursed /\ runs[h] = 0 /\ printed[h] = <<>>

\* C4: a notebook whose conversion fails is recorded as a failed outcome and
\* the harness does not end before the scan has returned.
C4_ConversionErrorIsLocal ==
  conv_failed # NoNode =>
    /\ outcome[conv_failed] = "Failed"
    /\ pc = "exit" => result.returned

\* C5: once a KeyboardInterrupt was caught while waiting for a target, the
\* child has been sent a terminate request, the harness has ended with a
\* non-zero status, and no subprocess is started any more.
C5_CancelStopsRun ==
  /\ [](cancelled \in Nodes =>
          /\ cancelled \in signalled
          /\ pc = "exit"
          /\ exit_code \notin {NoExit, 0})
  /\ [][(cancelled \in Nodes) => (runs' = runs /\ inflight' \subseteq inflight)]_vars

\* C5 witness: the interrupt is caught inside a nested directory while
\* entries are still unvisited there and in the enclosing directory.
C5_Witness ==
  /\ cancelled \in Nodes
  /\ Len(stack) = 2
  /\ stack[1].todo # {}
  /\ stack[2].todo # {}

\* C6: after a cancellation, whenever the harness has exited, the child
\* that was active is no longer running and the exit code is 1.
C6_CancelledChildGone ==
  (pc = "exit" /\ cancelled # NoNode) => (cancelled \notin inflight /\ exit_code = 1)

\* What is printed for a target whose run has been fully reported.
FullyReported(n) ==
  \/ outcome[n] = "Passed" /\ printed[n] = <<"Test", "ok">>
  \/ /\ outcome[n] = "Failed"
     /\ Len(printed[n]) >= 4
     /\ SubSeq(printed[n], 1, 2) = <<"Test", "ERROR">>
     /\ SubSeq(printed[n], Len(printed[n]) - 1, Len(printed[n])) = <<"stdout", "stderr">>

\* C7: at most one subprocess is alive, its progress line has been printed,
\* and every target started before it has been fully reported.
C7_OneAtATime ==
  /\ Cardinality(inflight) <= 1
  /\ \A n \in inflight \cap Nodes :
       /\ Len(printed[n]) >= 1 /\ printed[n][1] = "Test"
       /\ \A m \in Nodes \ {n} : runs[m] > 0 => FullyReported(m)

\* C7 witness: a target is in flight after an earlier one failed and an
\* earlier one passed.
C7_Witness ==
  /\ \E n \in inflight : n \in Nodes
  /\ \E m \in Nodes : outcome[m] = "Failed"
  /\ \E m \in Nodes : outcome[m] = "Passed"

\* C8: when the loader reads a file with an entry naming no existing file,
\* the run ends with the loader's error and no target subprocess was started.
C8_StaleEntryAborts ==
  (skip_slow_books /\ HasStaleEntry(slow_books) /\ pc # "load") =>
    /\ pc = "exit"
    /\ exit_code = UncaughtExit
    /\ ~ScanStarted
    /\ \A n \in Nodes : runs[n] = 0 /\ n \notin inflight

\* C8 witness: the loader has raised on the stale entry of .slow-books.
C8_Witness ==
  /\ skip_slow_books
  /\ slow_books = SlowBooksStale
  /\ pc = "exit"
  /\ exit_code = UncaughtExit

\* C9: a results run exits with 1 when a target failed, the run was
\* cancelled or .slow-books has a malformed entry, and with 0 otherwise.
C9_ExitCodeContract ==
  (entry = "main" /\ pc = "exit" /\ ScanStarted) =>
    LET bad == \/ \E n \in Nodes : outcome[n] = "Failed"
               \/ last.returncode \notin {NoExit, 0}
               \/ cancelled # NoNode
               \/ HasStaleEntry(slow_books)
    IN /\ bad => exit_code = 1
       /\ exit_code = 0 => ~bad
       /\ (~bad /\ conv_failed = NoNode /\ args = [NoArgs EXCEPT !.results = TRUE])
            => exit_code = 0

\* A file the scan is to execute: a script or notebook that is not in the
\* ignore list and not below a hidden directory.
Eligible(n) ==
  /\ ~IsDirNode(n)
  /\ TargetKind(PathOf(n)) \in {"script", "notebook"}
  /\ ~Ignored(n)
  /\ ~UnderHidden(n)

\* C10: when a recursive scan that was not cancelled is over, every eligible
\* file has been executed exactly once and has exactly one outcome.
C10_EveryEligibleRunOnce ==
  (Ended /\ ScanStarted /\ recursive /\ cancelled = NoNode) =>
    \A n \in Nodes : Eligible(n) => runs[n] = 1 /\ Executed(n)

\* The target's subprocess ended with a non-zero status.
EndedInFailure(n) ==
  \/ outcome[n] = "Failed"
  \/ last.node = n /\ last.returncode \notin {NoExit, 0}

Shown(n, what) == \E i \in 1..Len(printed[n]) : printed[n][i] = what

\* C11: once a target has ended in failure, its captured stdout and stderr
\* have been printed, whatever the harness does next.
C11_FailureShowsOutput ==
  \A n \in Nodes : EndedInFailure(n) => Shown(n, "stdout") /\ Shown(n, "stderr")

\* C12: for a target that was run and has an outcome, the outcome is Passed
\* exactly when the returncode is 0, whatever was captured on stdout/stderr.
C12_SuccessIffZero ==
  \A n \in Nodes :
    (last.node = n /\ outcome[n] # "none") =>
      /\ Executed(n)
      /\ (outcome[n] = "Passed") <=> (last.returncode = 0)

\* C12 witness: a target passed although its stderr was not empty, and the
\* scan result so far is still true.
C12_Witness ==
  /\ last.node \in Nodes
  /\ last.returncode = 0
  /\ last.output.stderr # "empty"
  /\ outcome[last.node] = "Passed"
  /\ pc = "scan"
  /\ Top.ok

\* C13: canonicalizing an entry a second time changes nothing.
C13_CanonIdempotent ==
  Len(canon) = 3 => canon[3] = canon[2]

\* C13 witness: an entry that lacked both the prefix and the extension has
\* been canonicalized twice.
C13_Witness ==
  /\ Len(canon) = 3
  /\ canon[1] # <<>>
  /\ canon[2] = ResultsPrefix \o canon[1] \o ExtIpynb

\* The canonical forms of the lines of the file that are neither blank nor
\* comments.
Listed(file) ==
  { Canon(Strip(file.lines[i])) :
      i \in { j \in 1..Len(file.lines) :
                LET line == Strip(file.lines[j])
                IN line # <<>> /\ SubSeq(line, 1, 1) # <<"#">> } }

\* C14: a loader that was asked to read returns no entry when .slow-books is
\* missing and otherwise exactly the canonical forms of its non-blank,
\* non-comment lines; and in a run started from the command line the files
\* those lines name are not run.
C14_LoaderFeedsRun ==
  /\ (entry = "run_nb" /\ skip_slow_books /\ ScanStarted) =>
       /\ ~slow_books.exists => ignore_list = <<>>
       /\ slow_books.exists =>
            {ignore_list[i] : i \in 1..Len(ignore_list)} = Listed(slow_books)
  /\ (entry = "main" /\ ScanStarted) =>
       \A n \in Nodes : PathOf(n) \in Listed(slow_books) => runs[n] = 0

\* C15: whenever a target is spawned, the environment it is given has the
\* harness's variables and MPLBACKEND, MPLBACKEND is "Template", every other
\* variable has the harness's value, and the harness's own environment is
\* what it was before.
C15_ChildEnvironment ==
  [][(runs' # runs) =>
       (/\ os_environ' = os_environ
        /\ DOMAIN env' = DOMAIN os_environ \cup {"MPLBACKEND"}
        /\ env'["MPLBACKEND"] = "Template"
        /\ \A k \in DOMAIN os_environ \ {"MPLBACKEND"} : env'[k] = os_environ[k])]_vars

\* A target was spawned by a harness whose own MPLBACKEND is interactive and
\* which has other variables set.
C15_Witness ==
  /\ \E n \in Nodes : runs[n] = 1 /\ n \in inflight
  /\ "MPLBACKEND" \in DOMAIN os_environ
  /\ os_environ["MPLBACKEND"] = "TkAgg"
  /\ "HOME" \in DOMAIN os_environ
  /\ env = [os_environ EXCEPT !["MPLBACKEND"] = "Template"]

\* Some target executed in the scan failed.
SomeFailed == \E n \in Nodes : outcome[n] = "Failed"

\* C16: a command line that has --results, once the process has exited, has
\* run a scan of the results tree, and has exit status 1 if a target failed.
C16_ResultsAlwaysScans ==
  (entry = "main" /\ args.results /\ pc = "exit" /\ cancelled = NoNode) =>
    /\ exit_code = 0 => ScanStarted
    /\ (ScanStarted /\ SomeFailed) => exit_code = 1

\* The command line is --quick and nothing else.
OnlyQuick == entry = "main" /\ args = [NoArgs EXCEPT !.quick = TRUE]

\* C17 as stated: a --quick invocation that ended without being cancelled
\* has run flake8 and has run the scan of the results tree.
C17_QuickRunsBothRegardless ==
  (OnlyQuick /\ pc = "exit" /\ cancelled = NoNode) =>
    (flake8.runs >= 1 /\ ScanStarted)

\* C17, amended: with --quick flake8 is run first, the scan of the results
\* tree is started only after flake8 has ended with status 0, and an
\* invocation that exits with status 0 has run both to the end.
C17_QuickRunsBothIfFirstPasses ==
  (entry = "main" /\ args.quick) =>
    /\ (ret = "main_help" /\ pc \in {"main_quick_nb", "load", "scan"}) =>
         (flake8.runs >= 1 /\ flake8.status = 0 /\ Flake8Proc \notin inflight)
    /\ (OnlyQuick /\ ScanStarted) => flake8.status = 0
    /\ (pc = "exit" /\ exit_code = 0) =>
         (flake8.status = 0 /\ ScanStarted /\ result.returned /\ summary = "OK")

\* A --quick invocation ended with status 0 after flake8 passed and the scan
\* ran a target.
C17_Witness ==
  /\ OnlyQuick
  /\ pc = "exit"
  /\ exit_code = 0
  /\ flake8 = [runs |-> 1, status |-> 0]
  /\ \E n \in Nodes : outcome[n] = "Passed"

\* The command line has --flake8 and neither -debook nor --quick, so that
\* run_flake8 is the only thing the invocation does.
Flake8Only == entry = "main" /\ args.flake8 /\ ~args.debook /\ ~args.quick

\* C18: with --flake8 one flake8 subprocess is spawned; once the harness has
\* exited the child is gone, the exit status is the child's when the wait was
\* not cancelled, and when it was cancelled the child was sent a terminate
\* request and the exit status is 1.
C18_Flake8StatusAndCancel ==
  Flake8Only =>
    /\ flake8.runs <= 1
    /\ pc \notin {"main_tests"} => flake8.runs = 1
    /\ pc = "exit" =>
         /\ Flake8Proc \notin inflight
         /\ cancelled = NoNode => exit_code = flake8.status
         /\ cancelled = Flake8Proc => (Flake8Proc \in signalled /\ exit_code = 1)
         /\ cancelled \in {NoNode, Flake8Proc}

\* flake8 ended by itself with a non-zero status, which is the exit status.
C18_Witness ==
  /\ Flake8Only
  /\ pc = "exit"
  /\ cancelled = NoNode
  /\ flake8.status = 1
  /\ exit_code = 1

\* The wait for flake8 was cancelled and the harness has exited.
C18_WitnessCancelled ==
  /\ Flake8Only
  /\ pc = "exit"
  /\ cancelled = Flake8Proc

\* The entry has been given to the converter or to a subprocess, or has an
\* outcome.
Touched(n) ==
  \/ runs[n] > 0
  \/ conv_failed = n
  \/ n \in inflight
  \/ outcome[n] # "none"
  \/ printed[n] # <<>>

\* C19: in a scan called with recursive = False no directory below the root
\* is scanned and no entry of a subdirectory is converted, executed or
\* given an outcome.
C19_NonRecursiveStaysAtRoot ==
  (entry = "scan" /\ ~recursive) =>
    /\ recursed \subseteq {Root}
    /\ \A n \in Nodes : Parent(n) # Root => ~Touched(n)

\* A non-recursive scan has returned after running a target of the root and
\* passing over the subdirectory "sub".
C19_Witness ==
  /\ entry = "scan"
  /\ ~recursive
  /\ pc = "returned"
  /\ outcome[1] = "Passed"
  /\ outcome[2] \in {"Passed", "Failed"}

\* C20: an entry that is a directory is never converted or executed, and no
\* entry is both scanned as a directory and executed.
C20_DirectoryNeverExecuted ==
  /\ \A n \in Nodes : IsDirNode(n) => (runs[n] = 0 /\ conv_failed # n)
  /\ \A n \in Nodes : ~(n \in recursed /\ runs[n] > 0)

====
